---- MODULE Spec2Model ----
(***************************************************************************)
(* A model of pault.ag/go/diskring: a ring of length-prefixed records kept *)
(* in a file that is mapped twice, back to back, so that a frame may run   *)
(* over the end of the file and still be addressed as one flat span.       *)
(*                                                                         *)
(* The state is the Ring struct (size, cursor, the bytes behind buf, the   *)
(* flags, the mutex), the position of every goroutine inside Read or       *)
(* Write, and a history of the calls that have returned.                   *)
(***************************************************************************)
EXTENDS Integers, Sequences, FiniteSets, TLC

\* ------------------------------------------------------------------ sizes

\* unsafe.Sizeof(uintptr(0)) on a 64-bit build: the width of a length prefix.
uintptrSize == 8

\* syscall.Getpagesize(), scaled down: the smallest page that can hold a
\* Cursor (two words) with room to spare.
Getpagesize == 32

\* stat.Size() of the backing file: one page, no header.
FileSize == 32

\* Calls of Read, Write and Reset made in one behaviour of several
\* goroutines.
MaxOps == 4

\* Calls of Read, Write and Reset made in one behaviour of one goroutine.
SeqOps == 6

\* The goroutines that use the ring.
Threads == {1, 2}

\* A decoded length word at or above this value is kept as this value: it is
\* larger than every buffer and every ring of the model, and every such
\* length takes the same path through Read.
HugeLen == 256 * 65536

VARIABLES
    size,            \* Ring.size: N, the length of the data region
    cursor,          \* *Ring.cursor: [head, tail]
    file,            \* the data region of the file, offset -> byte
    readOnly,        \* Ring.readOnly
    dontBlockReads,  \* Ring.dontBlockReads
    blockWrites,     \* Ring.blockWrites
    mutex,           \* Ring.mutex: 0 when unlocked, else the holder
    pc,              \* where each goroutine is
    arg,             \* the argument of the call a goroutine is in
    hist,            \* the calls that have returned, in order of return
    budget,          \* how many calls the behaviour makes
    stat,            \* stat.Size() of the backing file
    header,          \* the two words at the start of the file's first page
    cursorIn,        \* where Ring.cursor points: "heap" or "header"
    options,         \* the Options the ring was built with
    maps,            \* what the calls to mmap have left mapped
    fd,              \* Ring.file: "open" or "closed"
    ring             \* the *Ring: "nil", "open" or "closed"; "failed" when
                     \* NewWithOptions has returned an error

\* What only NewWithOptions and Close change.
mapping == <<stat, cursorIn, options, maps, fd, ring>>

vars == <<size, cursor, file, readOnly, dontBlockReads, blockWrites, mutex,
          pc, arg, hist, budget, header, mapping>>

\* ------------------------------------------------------------- the memory

\* Ring.buf is 2N bytes long; its second half is the first half again.
buf(v) == file[v % size]

\* *(*uintptr)(unsafe.Pointer(&r.buf[o])): a little-endian word at o.
LoadWord(o) ==
    IF \E i \in 3..(uintptrSize - 1) : buf(o + i) # 0
    THEN HugeLen
    ELSE buf(o) + 256 * buf(o + 1) + 65536 * buf(o + 2)

\* The byte i of the word w, least significant first.
WordByte(w, i) ==
    IF i = 0 THEN w % 256
    ELSE IF i = 1 THEN (w \div 256) % 256
    ELSE IF i = 2 THEN (w \div 65536) % 256
    ELSE 0

\* Write that copies the payload and leaves the length word as it was.
StoreFramePayloadOnly(f, n, tail, p) ==
    [o \in DOMAIN f |->
        LET d == (o - tail) % n IN
        IF d >= uintptrSize /\ d < uintptrSize + Len(p) THEN p[d - uintptrSize + 1]
        ELSE f[o]]

\* The file after Write has copied p to tail+P and stored len(p) at tail.
StoreFrame(f, n, tail, p) ==
    [o \in DOMAIN f |->
        LET d == (o - tail) % n IN
        IF d < uintptrSize THEN WordByte(Len(p), d)
        ELSE IF d < uintptrSize + Len(p) THEN p[d - uintptrSize + 1]
        ELSE f[o]]

\* A slice that starts at the length word instead of after it.
SliceFromWord(a, l) == [i \in 1..l |-> buf(a - uintptrSize + i - 1)]

\* r.buf[a:a+l] as a byte sequence.
Slice(a, l) == [i \in 1..l |-> buf(a + i - 1)]

\* ------------------------------------------------------------ the cursors

\* len that takes the distance from tail to head when the used bytes wrap.
lenNoWrap(c, n) ==
    IF c.head > c.tail THEN c.head - c.tail
    ELSE IF c.head < c.tail THEN c.tail - c.head
    ELSE 0

\* Ring.len
len(c, n) ==
    IF c.head > c.tail THEN (n - c.head) + c.tail
    ELSE IF c.head < c.tail THEN c.tail - c.head
    ELSE 0

\* freeBytes that counts a quarter of the ring only.
freeBytesOfQuarter(c, n) == n \div 4 - len(c, n)

\* Ring.freeBytes
freeBytes(c, n) == n - len(c, n)

\* Ring.empty
empty(c, n) == len(c, n) = 0

\* advanceHead that reports success and leaves head where it was.
advanceHeadStuck(c, n) ==
    IF len(c, n) = 0
    THEN [cur |-> c, err |-> "EOF"]
    ELSE [cur |-> c, err |-> "nil"]

\* advanceHead that does not bring head back into the ring.
advanceHeadNoWrap(c, n) ==
    IF len(c, n) = 0
    THEN [cur |-> c, err |-> "EOF"]
    ELSE [cur |-> [c EXCEPT !.head = c.head + LoadWord(c.head) + uintptrSize],
          err |-> "nil"]

\* Ring.advanceHead: the cursor afterwards and the error.
advanceHead(c, n) ==
    IF len(c, n) = 0
    THEN [cur |-> c, err |-> "EOF"]
    ELSE [cur |-> [c EXCEPT !.head = (c.head + LoadWord(c.head) + uintptrSize) % n],
          err |-> "nil"]

\* Write that drops no frame to make room for the one it appends.
MakeRoomNone(c, n, need) == [cur |-> c, err |-> "nil"]

\* The loop at the top of Write: drop frames from the head until need fits.
RECURSIVE MakeRoom(_, _, _)
MakeRoom(c, n, need) ==
    IF need > freeBytes(c, n)
    THEN LET a == advanceHead(c, n) IN
         IF a.err # "nil" THEN a ELSE MakeRoom(a.cur, n, need)
    ELSE [cur |-> c, err |-> "nil"]

\* A store through r.cursor that never reaches the file.
StoreCursorInMemory(c) ==
    /\ cursor' = c
    /\ header' = header

\* A store through r.cursor: it lands in the header page when the cursor
\* sits there, and the page is a shared mapping of the file.
StoreCursor(c) ==
    /\ cursor' = c
    /\ header' = IF cursorIn = "header" THEN c ELSE header

\* ------------------------------------------------------------ the mappings

\* unsafe.Sizeof(Cursor{}): two words.
CursorSize == 2 * uintptrSize

\* &Cursor{head: 0, tail: 0}
ZeroCursor == [head |-> 0, tail |-> 0]

\* The address space with nothing of the ring in it. header: the first page
\* of the file; one, two: the halves of the 2N range, each unmapped
\* ("none"), reserved ("anon") or a mapping of the data region ("file");
\* other: a mapping the kernel placed away from the address asked for.
Unmapped == [header |-> FALSE, one |-> "none", two |-> "none", other |-> FALSE]

\* Options: ReserveHeader false, the rest as given.
NoHeader(ro, dbr) ==
    [ReserveHeader |-> FALSE, ReadOnlyCursor |-> ro, DontBlockReads |-> dbr,
     CustomHeader |-> "nil", DontCloseFile |-> FALSE]

\* The Options tried on a file laid out with (rh) or without a header page.
\* CustomHeader is nil, a callback that fails ("error") or a callback that
\* returns no cursor ("noCursor").
OptionSets(rh) ==
    [ReserveHeader : {rh}, ReadOnlyCursor : BOOLEAN, DontBlockReads : {FALSE},
     CustomHeader : IF rh THEN {"nil", "error", "noCursor"} ELSE {"nil"},
     DontCloseFile : BOOLEAN]

\* The first call of mmap that does not do what was asked, if any: the
\* kernel refuses it, or places a fixed mapping elsewhere.
MmapFailures(o) ==
    {"none", "base", "one", "splitOne", "two", "splitTwo"}
        \cup (IF o.ReserveHeader THEN {"header"} ELSE {})

\* NewWithOptions leaving the cursor in the header page whatever
\* ReadOnlyCursor says.
ConstructSharingCursor(o, st, hdr, fail) ==
    LET n      == st - (IF o.ReserveHeader THEN Getpagesize ELSE 0)
        inFile == o.ReserveHeader /\ o.CustomHeader = "nil"
        m1     == [Unmapped EXCEPT !.header = o.ReserveHeader]
        Ret(e, m) ==
            [err |-> e, maps |-> m, size |-> n,
             cursor |-> IF inFile THEN hdr ELSE ZeroCursor,
             cursorIn |-> IF inFile THEN "header" ELSE "heap"]
    IN  IF o.ReserveHeader /\ o.CustomHeader = "error" THEN Ret("CustomHeader", m1)
        ELSE IF n % Getpagesize # 0 THEN Ret("NotPageAligned", m1)
        ELSE IF fail # "none" THEN Ret("errno", m1)
        ELSE Ret("nil", [m1 EXCEPT !.one = "file", !.two = "file"])

\* NewWithOptions on a file of st bytes whose first words are hdr: the error
\* it returns, what it leaves mapped, and the size and the cursor of the
\* Ring it returns.
Construct(o, st, hdr, fail) ==
    LET offset == IF o.ReserveHeader THEN Getpagesize ELSE 0
        n      == st - offset
        inFile == o.ReserveHeader /\ o.CustomHeader = "nil"
        Ret(e, m) ==
            [err |-> e, maps |-> m, size |-> n,
             cursor |-> IF inFile THEN hdr ELSE ZeroCursor,
             cursorIn |-> IF inFile /\ ~o.ReadOnlyCursor THEN "header" ELSE "heap"]
        m1 == [Unmapped EXCEPT !.header = o.ReserveHeader]
        m2 == [m1 EXCEPT !.one = "anon", !.two = "anon"]
        m3 == [m2 EXCEPT !.one = "file"]
        m4 == [m3 EXCEPT !.two = "file"]
    IN  IF o.ReserveHeader /\ offset <= CursorSize THEN Ret("HeaderTooSmall", Unmapped)
        ELSE IF o.ReserveHeader /\ fail = "header" THEN Ret("errno", Unmapped)
        ELSE IF o.ReserveHeader /\ o.CustomHeader = "error" THEN Ret("CustomHeader", m1)
        ELSE IF n % Getpagesize # 0 THEN Ret("NotPageAligned", m1)
        ELSE IF fail = "base" THEN Ret("errno", m1)
        ELSE IF fail = "one" THEN Ret("errno", m2)
        ELSE IF fail = "splitOne" THEN Ret("MapSplit", [m2 EXCEPT !.other = TRUE])
        ELSE IF fail = "two" THEN Ret("errno", m3)
        ELSE IF fail = "splitTwo" THEN Ret("MapSplit", [m3 EXCEPT !.other = TRUE])
        ELSE Ret("nil", m4)

\* The Ring that NewWithOptions returns for a file of n bytes without a
\* header page.
NewRing(n) ==
    LET o == NoHeader(readOnly, dontBlockReads)
        r == Construct(o, n, ZeroCursor, "none") IN
    /\ stat = n
    /\ header = ZeroCursor
    /\ options = o
    /\ r.err = "nil"
    /\ size = r.size
    /\ cursor = r.cursor
    /\ cursorIn = r.cursorIn
    /\ maps = r.maps
    /\ fd = "open"
    /\ ring = "open"

\* ------------------------------------------------------------- the inputs

\* A payload of l bytes: b, b+1, ...
Chunk(b, l) == [i \in 1..l |-> (b + i - 1) % 128]

\* The payload lengths tried: one byte, the cap, one over the cap.
PayloadLens == {1, size \div 4, size \div 4 + 1}

\* The payloads a call may pass: the k-th call of a behaviour passes bytes
\* that start with k, so that no two records look alike.
Payloads == {Chunk(Len(hist) + 1, l) : l \in PayloadLens}

\* The buffers passed to Read: too small for all but the empty record, and
\* large enough for every record.
BufLens == {0, size \div 4}

\* ------------------------------------------------------------ the history

\* A call that has returned: who called what, the payload passed to Write,
\* the length of the buffer passed to Read, the count, the error and the
\* bytes it got back, and where the ring stood when the call took effect:
\* the offset it worked at and the bytes in use.
Returned(op, t, p, cap, n, err, data, at) ==
    [op |-> op, t |-> t, arg |-> p, cap |-> cap, n |-> n, err |-> err,
     data |-> data, at |-> at, used |-> len(cursor, size)]

\* A goroutine may start another call.
MayCall(t) ==
    /\ ring = "open"
    /\ pc[t] = "idle"
    /\ Len(hist) + Cardinality({u \in DOMAIN pc : pc[u] # "idle"}) < budget

\* The goroutines parked in <-r.wakeup.
wakeup == {t \in DOMAIN pc : pc[t] = "recv"}

\* ------------------------------------------------------------------- Init

Init ==
    /\ size = FileSize
    /\ size % Getpagesize = 0
    /\ cursor = [head |-> 0, tail |-> 0]
    /\ file = [o \in 0..(size - 1) |-> 0]
    /\ readOnly \in BOOLEAN
    /\ dontBlockReads \in BOOLEAN
    /\ blockWrites = FALSE
    /\ mutex = 0
    /\ pc = [t \in Threads |-> "idle"]
    /\ arg = [t \in Threads |-> <<>>]
    /\ NewRing(FileSize)
    /\ hist = <<>>
    /\ budget = MaxOps

\* ------------------------------------------------------------------ Write

\* The size check refusing a payload of exactly a quarter of the ring.
tooLargeAtCap(p, n) == Len(p) >= n \div 4

\* len(buf) > int(r.size/4)
tooLarge(p, n) == Len(p) > n \div 4

\* Write checking the size of the payload before the mode of the ring.
WriteReadOnlyAfterSize(t, p) ==
    /\ MayCall(t)
    /\ readOnly
    /\ hist' = Append(hist, Returned("Write", t, p, 0, 0,
                   IF tooLarge(p, size) THEN "TooLarge" ELSE "ReadOnly",
                   <<>>, cursor.tail))
    /\ UNCHANGED <<mapping, budget, size, cursor, header, file, readOnly,
                   dontBlockReads, blockWrites, mutex, pc, arg>>

\* Write on a ring opened with ReadOnlyCursor.
WriteReadOnly(t, p) ==
    /\ MayCall(t)
    /\ readOnly
    /\ hist' = Append(hist, Returned("Write", t, p, 0, 0, "ReadOnly", <<>>, cursor.tail))
    /\ UNCHANGED <<mapping, budget, size, cursor, header, file, readOnly, dontBlockReads, blockWrites,
                   mutex, pc, arg>>

\* Write of more than a quarter of the ring.
WriteTooLarge(t, p) ==
    /\ MayCall(t)
    /\ ~readOnly
    /\ tooLarge(p, size)
    /\ hist' = Append(hist, Returned("Write", t, p, 0, 0, "TooLarge", <<>>, cursor.tail))
    /\ UNCHANGED <<mapping, budget, size, cursor, header, file, readOnly, dontBlockReads, blockWrites,
                   mutex, pc, arg>>

\* Write passes its checks and takes the mutex.
WriteLock(t, p) ==
    /\ MayCall(t)
    /\ ~readOnly
    /\ ~tooLarge(p, size)
    /\ mutex = 0
    /\ mutex' = t
    /\ pc' = [pc EXCEPT ![t] = "Write"]
    /\ arg' = [arg EXCEPT ![t] = p]
    /\ UNCHANGED <<mapping, budget, size, cursor, header, file, readOnly, dontBlockReads, blockWrites, hist>>

\* pc after the send on the wakeup channel: a send that finds a receiver
\* parked hands it the value; one that finds none is dropped.
Signal(t, woken) ==
    [u \in DOMAIN pc |-> IF u = t THEN "idle"
                       ELSE IF u = woken THEN "woken"
                       ELSE pc[u]]

\* The body of Write, under the mutex, to its return.
WriteBody(t) ==
    /\ pc[t] = "Write"
    /\ LET p    == arg[t]
           room == MakeRoom(cursor, size, Len(p) + uintptrSize)
       IN  IF room.err # "nil"
           THEN /\ StoreCursor(room.cur)
                /\ file' = file
                /\ pc' = [pc EXCEPT ![t] = "idle"]
                /\ hist' = Append(hist, Returned("Write", t, p, 0, 0, room.err, <<>>, cursor.tail))
           ELSE /\ file' = StoreFrame(file, size, room.cur.tail, p)
                /\ StoreCursor([room.cur EXCEPT
                       !.tail = (room.cur.tail + uintptrSize + Len(p)) % size])
                /\ \E woken \in (IF wakeup = {} THEN {0} ELSE wakeup) :
                       pc' = Signal(t, woken)
                /\ hist' = Append(hist, Returned("Write", t, p, 0, Len(p), "nil", <<>>, room.cur.tail))
    /\ mutex' = 0
    /\ arg' = [arg EXCEPT ![t] = <<>>]
    /\ UNCHANGED <<mapping, budget, size, readOnly, dontBlockReads, blockWrites>>

\* ------------------------------------------------------------------- Read

\* Read takes the mutex.
ReadLock(t, n) ==
    /\ MayCall(t)
    /\ n \in BufLens
    /\ mutex = 0
    /\ mutex' = t
    /\ pc' = [pc EXCEPT ![t] = "Read"]
    /\ arg' = [arg EXCEPT ![t] = n]
    /\ UNCHANGED <<mapping, budget, size, cursor, header, file, readOnly, dontBlockReads, blockWrites, hist>>

\* Read dropping the record it could not return for want of room.
ReadFrameSkipping(c, n, buflen) ==
    LET length == LoadWord(c.head)
        a      == advanceHead(c, n) IN
    IF buflen < length
    THEN [n |-> 0, err |-> "BufferTooSmall", data |-> <<>>, cur |-> a.cur]
    ELSE [n |-> length, err |-> a.err,
          data |-> Slice(c.head + uintptrSize, length), cur |-> a.cur]

\* Read from the load of the length word to the return: what is returned,
\* and the cursor afterwards. A buffer shorter than the record is refused;
\* a record that runs past the end of buf is a slice out of range.
ReadFrame(c, n, buflen) ==
    LET length == LoadWord(c.head) IN
    IF buflen < length
    THEN [n |-> 0, err |-> "BufferTooSmall", data |-> <<>>, cur |-> c]
    ELSE IF c.head + uintptrSize + length > 2 * n
    THEN [n |-> 0, err |-> "panic", data |-> <<>>, cur |-> c]
    ELSE LET a == advanceHead(c, n) IN
         [n |-> length, err |-> a.err,
          data |-> Slice(c.head + uintptrSize, length), cur |-> a.cur]

\* The rest of Read, under the mutex, from the load of the length word to
\* the return.
ReadReturn(t) ==
    LET r == ReadFrame(cursor, size, arg[t]) IN
    /\ StoreCursor(r.cur)
    /\ hist' = Append(hist, Returned("Read", t, <<>>, arg[t], r.n, r.err, r.data, cursor.head))
    /\ mutex' = 0
    /\ pc' = [pc EXCEPT ![t] = "idle"]
    /\ arg' = [arg EXCEPT ![t] = <<>>]
    /\ UNCHANGED <<mapping, budget, size, file, readOnly, dontBlockReads, blockWrites>>

\* Read finds a record in the ring.
ReadBody(t) ==
    /\ pc[t] = "Read"
    /\ len(cursor, size) # 0
    /\ ReadReturn(t)

\* Read finds the ring empty and waits with the mutex held.
ReadUnlockKeepingMutex(t) ==
    /\ pc[t] = "Read"
    /\ len(cursor, size) = 0
    /\ mutex' = mutex
    /\ pc' = [pc EXCEPT ![t] = "unlocked"]
    /\ UNCHANGED <<mapping, budget, size, cursor, header, file, readOnly,
                   dontBlockReads, blockWrites, arg, hist>>

\* Read finds the ring empty and gives up the mutex to wait.
ReadUnlock(t) ==
    /\ pc[t] = "Read"
    /\ len(cursor, size) = 0
    /\ mutex' = 0
    /\ pc' = [pc EXCEPT ![t] = "unlocked"]
    /\ UNCHANGED <<mapping, budget, size, cursor, header, file, readOnly, dontBlockReads, blockWrites,
                   arg, hist>>

\* Read parks in the receive on the wakeup channel.
ReadPark(t) ==
    /\ pc[t] = "unlocked"
    /\ pc' = [pc EXCEPT ![t] = "recv"]
    /\ UNCHANGED <<mapping, budget, size, cursor, header, file, readOnly, dontBlockReads, blockWrites,
                   mutex, arg, hist>>

\* Read, woken by a Write, takes the mutex again.
ReadRelock(t) ==
    /\ pc[t] = "woken"
    /\ mutex = 0
    /\ mutex' = t
    /\ pc' = [pc EXCEPT ![t] = "resumed"]
    /\ UNCHANGED <<mapping, budget, size, cursor, header, file, readOnly, dontBlockReads, blockWrites,
                   arg, hist>>

\* Read goes on after the wait.
ReadResume(t) ==
    /\ pc[t] = "resumed"
    /\ ReadReturn(t)

\* ------------------------------------------------- Reset and the write gate

\* Ring.reset
reset(c) == [head |-> 0, tail |-> 0]

\* Ring.Reset
Reset(t) ==
    /\ MayCall(t)
    /\ mutex = 0
    /\ StoreCursor(reset(cursor))
    /\ hist' = Append(hist, Returned("Reset", t, <<>>, 0, 0, "nil", <<>>, cursor.head))
    /\ UNCHANGED <<mapping, budget, size, file, readOnly, dontBlockReads, blockWrites, mutex, pc, arg>>

\* Ring.BlockWrites
BlockWrites(t) ==
    /\ pc[t] = "idle"
    /\ mutex = 0
    /\ ~blockWrites
    /\ blockWrites' = TRUE
    /\ UNCHANGED <<mapping, budget, size, cursor, header, file, readOnly, dontBlockReads, mutex, pc, arg, hist>>

\* Ring.UnblockWrites
UnblockWrites(t) ==
    /\ pc[t] = "idle"
    /\ mutex = 0
    /\ blockWrites
    /\ blockWrites' = FALSE
    /\ UNCHANGED <<mapping, budget, size, cursor, header, file, readOnly, dontBlockReads, mutex, pc, arg, hist>>

\* ------------------------------------------------------------------- Next

Next ==
    \E t \in Threads :
        \/ \E p \in Payloads : WriteReadOnly(t, p)
        \/ \E p \in Payloads : WriteTooLarge(t, p)
        \/ \E p \in Payloads : WriteLock(t, p)
        \/ WriteBody(t)
        \/ \E n \in BufLens : ReadLock(t, n)
        \/ ReadBody(t)
        \/ ReadUnlock(t)
        \/ ReadPark(t)
        \/ ReadRelock(t)
        \/ ReadResume(t)
        \/ Reset(t)
        \/ BlockWrites(t)
        \/ UnblockWrites(t)

Spec == Init /\ [][Next]_vars

\* ------------------------------------------------- one goroutine on its own

SeqInit ==
    /\ size = FileSize
    /\ size % Getpagesize = 0
    /\ cursor = [head |-> 0, tail |-> 0]
    /\ file = [o \in 0..(size - 1) |-> 0]
    /\ readOnly \in BOOLEAN
    /\ dontBlockReads \in BOOLEAN
    /\ blockWrites = FALSE
    /\ mutex = 0
    /\ pc = [t \in {1} |-> "idle"]
    /\ arg = [t \in {1} |-> <<>>]
    /\ NewRing(FileSize)
    /\ hist = <<>>
    /\ budget = SeqOps

\* With nobody to write, a Read that waits is never woken.
SeqNext ==
    \/ \E p \in Payloads : WriteReadOnly(1, p)
    \/ \E p \in Payloads : WriteTooLarge(1, p)
    \/ \E p \in Payloads : WriteLock(1, p)
    \/ WriteBody(1)
    \/ \E n \in BufLens : ReadLock(1, n)
    \/ ReadBody(1)
    \/ ReadUnlock(1)
    \/ ReadPark(1)
    \/ Reset(1)

SeqSpec == SeqInit /\ [][SeqNext]_vars

\* ------------------------------------- scenario S3: a ring of one 4096 page

\* stat.Size() of the file of the scenario.
S3FileSize == 4096

\* Calls made in one behaviour of the scenario.
S3Ops == 9

\* The first bytes of the payloads A, B, C, D, E.
S3Letters == <<65, 66, 67, 68, 69>>

\* The Writes that have returned.
Writes == SelectSeq(hist, LAMBDA e : e.op = "Write")

\* The Reads that have returned.
Reads == SelectSeq(hist, LAMBDA e : e.op = "Read")

S3Init ==
    /\ size = S3FileSize
    /\ size % Getpagesize = 0
    /\ cursor = [head |-> 0, tail |-> 0]
    /\ file = [o \in 0..(size - 1) |-> 0]
    /\ readOnly = FALSE
    /\ dontBlockReads = FALSE
    /\ blockWrites = FALSE
    /\ mutex = 0
    /\ pc = [t \in {1} |-> "idle"]
    /\ arg = [t \in {1} |-> <<>>]
    /\ NewRing(S3FileSize)
    /\ hist = <<>>
    /\ budget = S3Ops

\* One goroutine writes A, B, C, D, E, a quarter of the ring each, and reads
\* with a buffer of that size whenever it likes.
S3Next ==
    \/ /\ Len(Writes) < Len(S3Letters)
       /\ WriteLock(1, Chunk(S3Letters[Len(Writes) + 1], size \div 4))
    \/ WriteBody(1)
    \/ ReadLock(1, size \div 4)
    \/ ReadBody(1)
    \/ ReadUnlock(1)
    \/ ReadPark(1)

S3Spec == S3Init /\ [][S3Next]_vars

\* --------------------------------- a file opened, used, closed and reopened

\* Calls made in one behaviour on the file, NewWithOptions and Close
\* included.
FileOps == 6

\* The sizes of the files tried: the data region alone, and a header page in
\* front of it; each also with half a page too much.
FileSizes ==
    {FileSize, FileSize + Getpagesize \div 2,
     FileSize + Getpagesize, FileSize + Getpagesize + Getpagesize \div 2}

\* The file has room for a header page in front of the data region.
HasHeaderPage == stat >= FileSize + Getpagesize

\* NewWithOptions, from the call to the return. The model follows the
\* mappings of one Ring at a time, and a caller that is refused a Ring does
\* not ask again.
Build(t, op, o, fail) ==
    LET r == Construct(o, stat, header, fail) IN
    /\ pc[t] = "idle"
    /\ Len(hist) < budget
    /\ ring \in {"nil", "closed"}
    /\ maps = Unmapped
    /\ o \in OptionSets(HasHeaderPage)
    /\ fail \in MmapFailures(o)
    /\ options' = o
    /\ maps' = r.maps
    /\ IF r.err = "nil"
       THEN /\ ring' = "open"
            /\ size' = r.size
            /\ cursor' = r.cursor
            /\ cursorIn' = r.cursorIn
            /\ readOnly' = o.ReadOnlyCursor
            /\ dontBlockReads' = o.DontBlockReads
            /\ blockWrites' = FALSE
            /\ mutex' = 0
       ELSE /\ ring' = "failed"
            /\ UNCHANGED <<size, cursor, cursorIn, readOnly, dontBlockReads,
                           blockWrites, mutex>>
    /\ hist' = Append(hist, Returned(op, t, <<>>, 0, 0, r.err, <<>>, 0))
    /\ UNCHANGED <<stat, header, file, pc, arg, budget>>

\* NewWithOptions on a file the caller has opened.
NewWithOptions(t, o, fail) ==
    /\ fd = "open"
    /\ Build(t, "NewWithOptions", o, fail)
    /\ fd' = fd

\* OpenWithOptions: open the path, build the ring, close the file again if
\* that fails.
OpenWithOptions(t, o, fail) ==
    /\ fd = "closed"
    /\ Build(t, "OpenWithOptions", o, fail)
    /\ fd' = IF Construct(o, stat, header, fail).err = "nil" THEN "open" ELSE "closed"

\* The first call of munmap in Close that fails, if any.
MunmapFailures(m) ==
    {"none", "one", "two", "base"} \cup (IF m.header THEN {"header"} ELSE {})

\* Close that closes the file whatever DontCloseFile says.
ReleaseClosingFile(m, dontCloseFile, fail) ==
    LET m1 == [m EXCEPT !.header = FALSE]
        m2 == [m1 EXCEPT !.one = "none"]
        m3 == [m2 EXCEPT !.two = "none"]
    IN  IF m.header /\ fail = "header" THEN [err |-> "errno", maps |-> m, fd |-> "open"]
        ELSE IF fail = "one" THEN [err |-> "errno", maps |-> m1, fd |-> "open"]
        ELSE IF fail = "two" THEN [err |-> "errno", maps |-> m2, fd |-> "open"]
        ELSE IF fail = "base" THEN [err |-> "errno", maps |-> m3, fd |-> "open"]
        ELSE [err |-> "nil", maps |-> m3, fd |-> "closed"]

\* Close from the first munmap on: the error returned, what is still mapped
\* and whether the file is still open.
Release(m, dontCloseFile, fail) ==
    LET m1 == [m EXCEPT !.header = FALSE]
        m2 == [m1 EXCEPT !.one = "none"]
        m3 == [m2 EXCEPT !.two = "none"]
    IN  IF m.header /\ fail = "header" THEN [err |-> "errno", maps |-> m, fd |-> "open"]
        ELSE IF fail = "one" THEN [err |-> "errno", maps |-> m1, fd |-> "open"]
        ELSE IF fail = "two" THEN [err |-> "errno", maps |-> m2, fd |-> "open"]
        ELSE IF fail = "base" THEN [err |-> "errno", maps |-> m3, fd |-> "open"]
        ELSE [err |-> "nil", maps |-> m3,
              fd |-> IF dontCloseFile THEN "open" ELSE "closed"]

\* Ring.Close
Close(t, fail) ==
    LET r == Release(maps, options.DontCloseFile, fail) IN
    /\ MayCall(t)
    /\ mutex = 0
    /\ fail \in MunmapFailures(maps)
    /\ maps' = r.maps
    /\ fd' = r.fd
    /\ ring' = "closed"
    /\ hist' = Append(hist, Returned("Close", t, <<>>, 0, 0, r.err, <<>>, 0))
    /\ UNCHANGED <<stat, cursorIn, options, budget, size, cursor, header, file,
                   readOnly, dontBlockReads, blockWrites, mutex, pc, arg>>

FileInit ==
    /\ stat \in FileSizes
    /\ size = FileSize
    /\ cursor = ZeroCursor
    /\ header = ZeroCursor
    /\ file = [o \in 0..(size - 1) |-> 0]
    /\ readOnly = FALSE
    /\ dontBlockReads = FALSE
    /\ blockWrites = FALSE
    /\ mutex = 0
    /\ pc = [t \in {1} |-> "idle"]
    /\ arg = [t \in {1} |-> <<>>]
    /\ hist = <<>>
    /\ budget = FileOps
    /\ cursorIn = "heap"
    /\ options = NoHeader(FALSE, FALSE)
    /\ maps = Unmapped
    /\ fd = "open"
    /\ ring = "nil"

\* The payloads written to the rings on the file: one byte, and the cap.
FilePayloads == {Chunk(Len(hist) + 1, l) : l \in {1, size \div 4}}

\* One goroutine builds a ring on the file, uses it, closes it and builds
\* the next. It reads with a buffer that holds any record.
FileNext ==
    \/ \E o \in OptionSets(HasHeaderPage) :
           \E fail \in MmapFailures(o) : NewWithOptions(1, o, fail)
    \/ \E o \in OptionSets(HasHeaderPage) :
           \E fail \in MmapFailures(o) : OpenWithOptions(1, o, fail)
    \/ \E fail \in MunmapFailures(maps) : Close(1, fail)
    \/ \E p \in Payloads : WriteReadOnly(1, p)
    \/ \E p \in Payloads : WriteTooLarge(1, p)
    \/ \E p \in FilePayloads : WriteLock(1, p)
    \/ WriteBody(1)
    \/ ReadLock(1, size \div 4)
    \/ ReadBody(1)
    \/ ReadUnlock(1)
    \/ ReadPark(1)
    \/ Reset(1)

FileSpec == FileInit /\ [][FileNext]_vars

\* ======================================================== the properties

\* The bytes a sequence of Write calls takes on the ring, prefixes included.
RECURSIVE FramedSize(_)
FramedSize(ws) ==
    IF ws = <<>> THEN 0
    ELSE Len(Head(ws).arg) + uintptrSize + FramedSize(Tail(ws))

\* The goroutine has found the ring empty in a Read and waits.
Waits(t) == pc[t] \in {"unlocked", "recv"}

\* The history is that of a fresh, writable ring: Writes that were all
\* admitted, then Reads with buffers that hold any record, and nothing else.
WritesThenReads ==
    /\ ~readOnly
    /\ hist = Writes \o Reads
    /\ \A i \in 1..Len(Writes) : Len(Writes[i].arg) <= size \div 4
    /\ \A i \in 1..Len(Reads) : Reads[i].cap = size \div 4

\* C1: round trip. One goroutine writes p1..pk to a fresh ring, each at most
\* N/4 bytes and Sum(|pi| + P) <= N, then reads: every Write succeeds, the
\* i-th Read returns pi with count |pi| and no error, and no Read finds the
\* ring empty while records it has not returned remain.
C1_RoundTrip ==
    (WritesThenReads /\ FramedSize(Writes) <= size /\ Len(Reads) <= Len(Writes))
    => /\ \A i \in 1..Len(Writes) :
              Writes[i].err = "nil" /\ Writes[i].n = Len(Writes[i].arg)
       /\ \A i \in 1..Len(Reads) :
              /\ Reads[i].err = "nil"
              /\ Reads[i].n = Len(Writes[i].arg)
              /\ Reads[i].data = Writes[i].arg
       /\ Len(Reads) < Len(Writes) => \A t \in DOMAIN pc : ~Waits(t)

\* C2: a Write that succeeds leaves its record live: afterwards
\* used >= P + |p| > 0, so tail is never left equal to head.
C2_WriteLeavesRecordLive ==
    [][\A t \in DOMAIN pc :
          (pc[t] = "Write" /\ pc'[t] = "idle" /\ hist'[Len(hist')].err = "nil")
          => len(cursor', size) >= uintptrSize + Len(arg[t])]_vars

\* C3: overwrite oldest first. One goroutine writes w1..wk (all succeed) to a
\* fresh ring and then reads: the Reads return wj, wj+1, ... in order, with
\* no gap, and once a Read finds the ring empty they have returned wj..wk,
\* the last record written included.
C3_OverwriteOldestFirst ==
    (WritesThenReads /\ Len(Writes) >= 1
        /\ \A i \in 1..Len(Writes) : Writes[i].err = "nil")
    => \E j \in 1..Len(Writes) :
          /\ \A i \in 1..Len(Reads) :
                /\ j + i - 1 <= Len(Writes)
                /\ Reads[i].err = "nil"
                /\ Reads[i].n = Len(Writes[j + i - 1].arg)
                /\ Reads[i].data = Writes[j + i - 1].arg
          /\ (\E t \in DOMAIN pc : Waits(t)) => j + Len(Reads) - 1 = Len(Writes)

\* The payloads the Reads have returned, in order.
ReadData == [i \in 1..Len(Reads) |-> Reads[i].data]

\* The payload of the scenario that starts with the i-th letter.
S3Payload(i) == Chunk(S3Letters[i], S3FileSize \div 4)

\* All five Writes of the scenario have returned, and only then was the
\* ring read.
S3WrittenThenRead ==
    /\ size = S3FileSize
    /\ Len(Writes) = Len(S3Letters)
    /\ hist = Writes \o Reads

\* s is the start of q.
IsPrefix(s, q) == Len(s) <= Len(q) /\ s = SubSeq(q, 1, Len(s))

\* C4, as stated: after A, B, C, D, E are written to a ring of 4096 bytes,
\* reading until the ring is empty yields B, C, D, E.
C4_S3YieldsBCDE ==
    S3WrittenThenRead
    => LET want == <<S3Payload(2), S3Payload(3), S3Payload(4), S3Payload(5)>> IN
       /\ IsPrefix(ReadData, want)
       /\ Waits(1) => ReadData = want

\* C4, amended: after A, B, C, D, E are written to a ring of 4096 bytes, all
\* five Writes succeed, and reading until the ring is empty yields C, D, E,
\* each with count 1024 and no error: three frames of 1032 bytes survive, A
\* and B are overwritten.
C4_S3YieldsCDE ==
    S3WrittenThenRead
    => LET want == <<S3Payload(3), S3Payload(4), S3Payload(5)>> IN
       /\ \A i \in 1..Len(Writes) :
              Writes[i].err = "nil" /\ Writes[i].arg = S3Payload(i)
       /\ IsPrefix(ReadData, want)
       /\ \A i \in 1..Len(Reads) :
              Reads[i].err = "nil" /\ Reads[i].n = S3FileSize \div 4
       /\ Waits(1) => ReadData = want

\* C4 happens: the five Writes, three Reads, and a fourth Read that finds
\* the ring empty.
C4_Witness ==
    /\ S3WrittenThenRead
    /\ Len(Reads) = 3
    /\ Waits(1)
    /\ cursor.head = cursor.tail

\* The call that returns in this step, when one does.
Returns == Len(hist') = Len(hist) + 1
Last == hist'[Len(hist')]

\* C5, as stated: every Write of more than N/4 bytes fails with TooLarge.
C5_EveryWriteOverCapTooLarge ==
    \A i \in 1..Len(hist) :
        (hist[i].op = "Write" /\ Len(hist[i].arg) > size \div 4)
        => hist[i].err = "TooLarge"

\* C5, amended: on a ring that is not read-only, every Write of more than
\* N/4 bytes fails with TooLarge, returns 0 and leaves head, tail and the
\* data region as they were; every Write of N/4 bytes or fewer succeeds and
\* returns the length of its payload.
C5_QuarterRingCap ==
    [][(Returns /\ Last.op = "Write" /\ ~readOnly)
       => IF Len(Last.arg) > size \div 4
          THEN /\ Last.err = "TooLarge"
               /\ Last.n = 0
               /\ cursor' = cursor
               /\ file' = file
          ELSE /\ Last.err = "nil"
               /\ Last.n = Len(Last.arg)]_vars

\* C5 happens: a Write of N/4 + 1 bytes has been refused and a Write of
\* exactly N/4 bytes has succeeded.
C5_Witness ==
    /\ ~readOnly
    /\ \E i \in 1..Len(hist) :
          /\ hist[i].op = "Write"
          /\ Len(hist[i].arg) = size \div 4 + 1
          /\ hist[i].err = "TooLarge"
    /\ \E i \in 1..Len(hist) :
          /\ hist[i].op = "Write"
          /\ Len(hist[i].arg) = size \div 4
          /\ hist[i].n = size \div 4

\* The payload of the last Write before the i-th call that put its frame
\* at offset o.
RECURSIVE WrittenAt(_, _)
WrittenAt(i, o) ==
    IF i = 0 THEN <<>>
    ELSE IF hist[i].op = "Write" /\ hist[i].err = "nil" /\ hist[i].at = o
    THEN hist[i].arg
    ELSE WrittenAt(i - 1, o)

\* C6: a Read on a ring that is not empty, with a buffer shorter than the
\* record at head, returns BufferTooSmall and 0, leaves head, tail and the
\* data region as they were and gives up the mutex; the call after it, if it
\* is a Read with room enough, returns that same record: the one at the same
\* offset, longer than the first buffer, with the bytes that were written
\* there.
C6_BufferTooSmallIdempotent ==
    /\ [][\A t \in DOMAIN pc :
             (pc[t] \in {"Read", "resumed"} /\ pc'[t] = "idle"
                 /\ len(cursor, size) # 0 /\ arg[t] < LoadWord(cursor.head))
             => /\ Last.err = "BufferTooSmall"
                /\ Last.n = 0
                /\ cursor' = cursor
                /\ file' = file
                /\ mutex' # t]_vars
    /\ [](\A i \in 1..(Len(hist) - 1) :
             (/\ hist[i].op = "Read"
              /\ hist[i].err = "BufferTooSmall"
              /\ hist[i].used # 0
              /\ hist[i + 1].op = "Read"
              /\ hist[i + 1].cap >= Len(WrittenAt(i, hist[i].at)))
             => /\ hist[i + 1].err = "nil"
                /\ hist[i + 1].at = hist[i].at
                /\ hist[i + 1].n > hist[i].cap
                /\ hist[i + 1].n = Len(hist[i + 1].data)
                /\ hist[i + 1].data = WrittenAt(i, hist[i].at))

\* C6 happens: a Read was refused for want of room on a ring that was not
\* empty, and the Read that followed returned a record.
C6_Witness ==
    \E i \in 1..(Len(hist) - 1) :
        /\ hist[i].op = "Read"
        /\ hist[i].err = "BufferTooSmall"
        /\ hist[i].used # 0
        /\ hist[i + 1].op = "Read"
        /\ hist[i + 1].err = "nil"
        /\ hist[i + 1].n > 0

\* The goroutine is inside the wait of a Read: it has given up the mutex,
\* and has not yet gone on with the mutex held again.
InWait(t) == pc[t] \in {"unlocked", "recv", "woken"}

\* C7: with DontBlockReads false, a Read on an empty ring returns EOF and 0
\* at once: it never waits on the wakeup channel, and head and tail stay as
\* they were.
C7_EmptyReadReturnsEOF ==
    ~dontBlockReads
    => /\ \A t \in DOMAIN pc : ~InWait(t) /\ pc[t] # "resumed"
       /\ \A i \in 1..Len(hist) :
              (hist[i].op = "Read" /\ hist[i].used = 0)
              => hist[i].err = "EOF" /\ hist[i].n = 0

\* C8: while blockWrites is set no Write takes effect: the body of a Write
\* does not run to its return, so no Write changes head, tail or the data
\* region and none returns success before UnblockWrites.
C8_BlockWritesHoldsWriters ==
    [][\A t \in DOMAIN pc :
          (blockWrites /\ pc[t] = "Write" /\ pc'[t] = "idle")
          => /\ Last.err # "nil"
             /\ cursor' = cursor
             /\ file' = file]_vars

\* Only the goroutine r has read or reset the ring, and nobody else is
\* inside a call.
OnlyReader(r) ==
    /\ \A u \in DOMAIN pc : u # r => pc[u] = "idle"
    /\ \A i \in 1..Len(hist) : hist[i].op \in {"Read", "Reset"} => hist[i].t = r

\* C9: with DontBlockReads true, one reader and one writer, a Write that
\* completes after the reader has found the ring empty is served to the
\* reader without another Write: the reader is never left parked on the
\* wakeup channel, with the writer back from its call, while a record is in
\* the ring.
C9_BlockingReadServed ==
    \A r \in DOMAIN pc :
        (dontBlockReads /\ pc[r] = "recv" /\ OnlyReader(r))
        => len(cursor, size) = 0

\* The successful Reads that returned the payload p.
ReadsOf(p) == {i \in 1..Len(hist) : hist[i].op = "Read" /\ hist[i].data = p}

\* C10: a Read decodes and returns a frame only if the ring is not empty
\* when it holds the mutex: no Read returns bytes, or a count other than 0,
\* along with an error; no Read that found the ring empty returns a record;
\* and no record is returned by two Reads.
C10_ReaderRechecks ==
    \A i \in 1..Len(hist) :
        hist[i].op = "Read"
        => /\ hist[i].err # "nil" => hist[i].n = 0 /\ hist[i].data = <<>>
           /\ hist[i].used = 0 => hist[i].n = 0 /\ hist[i].data = <<>>
           /\ hist[i].data # <<>> => Cardinality(ReadsOf(hist[i].data)) = 1

\* ---------------------------------------------------- rings with a header

\* The ring was opened with ReserveHeader and ReadOnlyCursor.
ReadOnlyHeaderRing ==
    ring = "open" /\ options.ReserveHeader /\ options.ReadOnlyCursor

\* C11: on a ring opened with ReserveHeader and ReadOnlyCursor every Write,
\* whatever the length of its payload, fails with ReadOnly and returns 0
\* without taking the mutex, and leaves the in-memory cursor, the cursor
\* words of the file and the data region as they were.
C11_ReadOnlyRejectsWrites ==
    [][ReadOnlyHeaderRing
       => /\ \A t \in DOMAIN pc : pc'[t] # "Write"
          /\ (Returns /\ Last.op = "Write")
             => /\ Last.err = "ReadOnly"
                /\ Last.n = 0
                /\ cursor' = cursor
                /\ header' = header
                /\ file' = file]_vars

\* C11 happens: on a read-only ring over a file that holds records, a Write
\* of more than N/4 bytes and a Write of one byte have both been refused.
C11_Witness ==
    /\ ReadOnlyHeaderRing
    /\ header.tail # header.head
    /\ Len(hist) >= 2
    /\ LET a == hist[Len(hist) - 1]
           b == hist[Len(hist)] IN
       /\ a.op = "Write" /\ a.err = "ReadOnly" /\ Len(a.arg) > size \div 4
       /\ b.op = "Write" /\ b.err = "ReadOnly" /\ Len(b.arg) = 1

\* C12: on a ring opened with ReserveHeader and ReadOnlyCursor no step
\* changes the head and tail words in the header page of the file, and
\* Read and Reset leave the data region alone as well: they change the
\* in-memory cursor only.
C12_ReadOnlyCursorInvariance ==
    [][ReadOnlyHeaderRing
       => /\ header' = header
          /\ (Returns /\ Last.op \in {"Read", "Reset"}) => file' = file]_vars

\* C12 happens: on a read-only ring a Read has returned a record and a
\* Reset has followed, and the in-memory cursor has left the one in the
\* file behind.
C12_Witness ==
    /\ ReadOnlyHeaderRing
    /\ options.CustomHeader = "nil"
    /\ Len(hist) >= 2
    /\ LET a == hist[Len(hist) - 1]
           b == hist[Len(hist)] IN
       /\ a.op = "Read" /\ a.err = "nil" /\ a.n > 0
       /\ b.op = "Reset"
    /\ header.tail # header.head
    /\ cursor # header

\* The records that Reads with room enough return, one after the other,
\* from the cursor c until the ring is empty or a Read fails.
RECURSIVE Drain(_, _, _)
Drain(c, n, fuel) ==
    IF fuel = 0 \/ len(c, n) = 0 THEN <<>>
    ELSE LET r == ReadFrame(c, n, n \div 4) IN
         IF r.err # "nil" THEN <<>>
         ELSE <<r.data>> \o Drain(r.cur, n, fuel - 1)

\* What a reader would get from the ring as it stands.
Drained == Drain(cursor, size, size)

\* ReserveHeader with the default layout and a cursor that is not read-only.
Persistent(o) ==
    o.ReserveHeader /\ o.CustomHeader = "nil" /\ ~o.ReadOnlyCursor

\* C13: on a ring with ReserveHeader, the default layout and ReadOnlyCursor
\* false, the cursor of the ring is the one in the file; Close changes
\* neither it nor the data region; and the ring built next on the same file
\* with the same options holds the (head, tail) the closed one held, and
\* Reads until empty return from it the records, in the order, that they
\* would have returned before Close.
C13_CursorPersistence ==
    /\ []((ring = "open" /\ Persistent(options)) => header = cursor)
    /\ [][(Returns /\ Last.op = "Close" /\ Persistent(options))
          => /\ cursor' = cursor
             /\ header' = header
             /\ file' = file]_vars
    /\ [][(ring = "closed" /\ ring' = "open" /\ Persistent(options)
              /\ options' = options)
          => /\ cursor' = cursor
             /\ size' = size
             /\ file' = file
             /\ Drained' = Drained]_vars

\* C13 happens: a ring was written to and closed, the ring built next on
\* the file has returned to a Read a record written through the first, and
\* holds another.
C13_Witness ==
    /\ ring = "open"
    /\ Persistent(options)
    /\ \E i, j, k \in 1..Len(hist) :
          /\ i < j /\ j < k /\ k < Len(hist)
          /\ hist[i].op = "Write" /\ hist[i].err = "nil"
          /\ hist[j].op = "Close" /\ hist[j].err = "nil"
          /\ hist[k].op \in {"NewWithOptions", "OpenWithOptions"}
          /\ hist[k].err = "nil"
          /\ hist[Len(hist)].op = "Read"
          /\ hist[Len(hist)].data = hist[i].arg
    /\ Len(Drained) >= 1

\* ------------------------------------------------------------------ Reset

\* The last Reset that has returned, 0 when there is none.
LastReset ==
    LET rs == {i \in 1..Len(hist) : hist[i].op = "Reset"} IN
    IF rs = {} THEN 0 ELSE CHOOSE i \in rs : \A j \in rs : j <= i

\* The call i is a Read that returned the record written by the call j.
ReadOfWrite(i, j) ==
    /\ hist[i].op = "Read" /\ hist[i].err = "nil" /\ hist[i].data # <<>>
    /\ hist[j].op = "Write" /\ hist[j].err = "nil"
    /\ hist[i].data = hist[j].arg

\* C14: Reset leaves head = tail = 0 and used = 0 and does not touch the
\* data region; the Read that follows a Reset reports the ring as empty:
\* it returns EOF and 0 and, on a ring that does not block its readers,
\* it does not wait; and every record read after a Reset was written after
\* that Reset, the records coming back in the order they were written.
C14_ResetEmptiesRing ==
    /\ [][(Returns /\ Last.op = "Reset")
          => /\ cursor' = ZeroCursor
             /\ len(cursor', size) = 0
             /\ file' = file]_vars
    /\ [](/\ \A i \in 1..(Len(hist) - 1) :
                (hist[i].op = "Reset" /\ hist[i + 1].op = "Read")
                => hist[i + 1].err = "EOF" /\ hist[i + 1].n = 0
          /\ (~dontBlockReads /\ LastReset # 0 /\ LastReset = Len(hist))
             => \A t \in DOMAIN pc : ~Waits(t)
          /\ \A i \in (LastReset + 1)..Len(hist) :
                (hist[i].op = "Read" /\ hist[i].data # <<>>)
                => \E j \in (LastReset + 1)..(i - 1) : ReadOfWrite(i, j)
          /\ \A i1, i2, j1, j2 \in (LastReset + 1)..Len(hist) :
                (i1 < i2 /\ ReadOfWrite(i1, j1) /\ ReadOfWrite(i2, j2))
                => j1 < j2)

\* ------------------------------------------------- NewWithOptions and Close

\* C15: when NewWithOptions or OpenWithOptions returns an error, nothing
\* that the call mapped is still mapped.
C15_FailedConstructionReleases ==
    ring = "failed" => maps = Unmapped

\* The mappings held.
Held(m) ==
    (IF m.header THEN {"header"} ELSE {})
        \cup (IF m.one # "none" THEN {"one"} ELSE {})
        \cup (IF m.two # "none" THEN {"two"} ELSE {})
        \cup (IF m.other THEN {"other"} ELSE {})

\* The last call to return was a Close, and it returned an error.
CloseFailed ==
    /\ ring = "closed"
    /\ hist[Len(hist)].op = "Close"
    /\ hist[Len(hist)].err # "nil"

\* C16: a Close that returns UnmapError still unmaps the mappings that
\* follow the one that failed and still closes the file unless
\* DontCloseFile: no mapping but the one that could not be unmapped stays
\* held.
C16_CloseNotPartial ==
    CloseFailed
    => /\ Cardinality(Held(maps)) <= 1
       /\ options.DontCloseFile \/ fd = "closed"

\* C17: a Close in which every munmap succeeds finds the header page mapped
\* if and only if one was reserved, and both halves of the mirror mapped;
\* it leaves nothing mapped, and the file closed if and only if
\* DontCloseFile is false.
C17_CloseReleasesAsConfigured ==
    [][(Returns /\ Last.op = "Close" /\ Last.err = "nil")
       => /\ maps.header = options.ReserveHeader
          /\ maps.one = "file" /\ maps.two = "file"
          /\ fd = "open"
          /\ maps' = Unmapped
          /\ fd' = (IF options.DontCloseFile THEN "open" ELSE "closed")
          /\ mutex' = 0]_vars

\* C17 happens: a Close has closed the file, so that the next ring had to
\* open it again, and the Close of that ring, built with a header page and
\* DontCloseFile, has left the file open.
C17_Witness ==
    /\ ring = "closed"
    /\ maps = Unmapped
    /\ options.ReserveHeader
    /\ options.DontCloseFile
    /\ fd = "open"
    /\ \E i, j \in 1..Len(hist) :
          /\ i < j /\ j < Len(hist)
          /\ hist[i].op = "Close" /\ hist[i].err = "nil"
          /\ hist[j].op = "OpenWithOptions" /\ hist[j].err = "nil"
          /\ hist[Len(hist)].op = "Close" /\ hist[Len(hist)].err = "nil"

\* ------------------------------------------------------------- the frames

\* From the offset o, with rem bytes in use from there on: the frames
\* follow one another, none longer than N/4 or than the bytes in use that
\* are left, and the last ends at tail.
RECURSIVE Chain(_, _)
Chain(o, rem) ==
    IF rem = 0 THEN o = cursor.tail
    ELSE LET L == LoadWord(o) IN
         /\ L <= size \div 4
         /\ uintptrSize + L <= rem
         /\ Chain((o + uintptrSize + L) % size, rem - uintptrSize - L)

\* The Writes that have succeeded since the last Reset, in the order in
\* which they held the mutex.
LiveWrites ==
    SelectSeq(SubSeq(hist, LastReset + 1, Len(hist)),
              LAMBDA e : e.op = "Write" /\ e.err = "nil")

\* s is the end of q.
IsSuffix(s, q) ==
    Len(s) <= Len(q) /\ s = SubSeq(q, Len(q) - Len(s) + 1, Len(q))

\* C18: with several goroutines in Write, each frame is put where the
\* Write that held the mutex before it left tail (at 0 after a Reset and on
\* a fresh ring); the live frames follow one another from head to tail
\* within the N bytes of the ring, so that none shares a byte with another;
\* and reading the ring until it is empty returns the last of the payloads
\* written, whole, in the order in which their Writes held the mutex.
C18_WritersSerialized ==
    /\ \A i \in 1..Len(LiveWrites) :
          LiveWrites[i].at =
              IF i = 1 THEN 0
              ELSE (LiveWrites[i - 1].at + uintptrSize
                        + Len(LiveWrites[i - 1].arg)) % size
    /\ len(cursor, size) < size
    /\ Chain(cursor.head, len(cursor, size))
    /\ IsSuffix(Drained, [i \in 1..Len(LiveWrites) |-> LiveWrites[i].arg])

\* C18 happens: two goroutines have written one after the other, both
\* records are in the ring, the later behind the earlier, and a goroutine
\* holds the mutex for the next Write.
C18_Witness ==
    /\ Len(LiveWrites) >= 2
    /\ Len(Drained) >= 2
    /\ LiveWrites[Len(LiveWrites)].t # LiveWrites[Len(LiveWrites) - 1].t
    /\ Drained[Len(Drained)] = LiveWrites[Len(LiveWrites)].arg
    /\ Drained[Len(Drained) - 1] = LiveWrites[Len(LiveWrites) - 1].arg
    /\ \E t \in DOMAIN pc : pc[t] = "Write"

C20_FrameChain ==
    Chain(cursor.head, len(cursor, size))

\* C20 happens: after a Read has returned a record the ring holds two
\* frames or more, and the bytes in use run over the end of the file.
C20_Witness ==
    /\ cursor.head > cursor.tail
    /\ len(cursor, size) > uintptrSize + LoadWord(cursor.head)
    /\ \E i \in 1..Len(hist) :
          hist[i].op = "Read" /\ hist[i].err = "nil" /\ hist[i].n > 0
    /\ \E i \in 1..Len(hist) : hist[i].op = "Reset"

\* ------------------------------------------------------------- the cursor

\* C21: whatever Writes, Reads, Resets, BlockWrites and UnblockWrites have
\* been made on a ring whose cursor started at (0, 0), and whether they
\* succeeded or failed, 0 <= head < N and 0 <= tail < N.
C21_CursorBounds ==
    /\ cursor.head \in 0..(size - 1)
    /\ cursor.tail \in 0..(size - 1)

\* C21 happens: Writes have taken tail over the end of the file and head
\* after it, a Write has failed, and BlockWrites has been called.
C21_Witness ==
    /\ cursor.tail # 0
    /\ cursor.tail < cursor.head
    /\ blockWrites
    /\ \E i \in 1..Len(hist) : hist[i].op = "Write" /\ hist[i].err # "nil"

\* The lengths of the payloads that Write admits.
AdmittedLens == 0..(size \div 4)

\* C22: on a writable ring no Write of N/4 bytes or fewer returns the EOF of
\* advanceHead, and in no state would one: for every such length the loop
\* of Write ends with need <= free and without an error.
C22_WriteNeverEmpty ==
    /\ \A i \in 1..Len(hist) :
          (hist[i].op = "Write" /\ Len(hist[i].arg) <= size \div 4)
          => hist[i].err # "EOF"
    /\ \A l \in AdmittedLens :
          LET room == MakeRoom(cursor, size, l + uintptrSize) IN
          /\ room.err = "nil"
          /\ l + uintptrSize <= freeBytes(room.cur, size)

\* C22 happens: a Write that found too little room has dropped a frame and
\* succeeded.
C22_Witness ==
    /\ ~readOnly
    /\ \E i \in 1..Len(hist) :
          /\ hist[i].op = "Write"
          /\ hist[i].err = "nil"
          /\ hist[i].used + Len(hist[i].arg) + uintptrSize > size

\* The cursor after k calls of advanceHead.
RECURSIVE Advanced(_, _, _)
Advanced(c, n, k) ==
    IF k = 0 THEN c ELSE Advanced(advanceHead(c, n).cur, n, k - 1)

\* The sequence q without its first k elements.
Drop(q, k) == SubSeq(q, k + 1, Len(q))

\* C23: a Write of p that succeeds, with need = P + |p|, returns |p| and
\* leaves tail at (tail + need) mod N. With need <= free beforehand it
\* leaves head alone and drops no record: the ring holds what it held, and
\* p behind it. With need > free it drops whole frames from the head, the
\* oldest first, and as few as make need <= free: the ring holds the rest
\* of what it held, and p behind it.
C23_WriteEffect ==
    [][(Returns /\ Last.op = "Write" /\ Last.err = "nil")
       => LET need == uintptrSize + Len(Last.arg)
              free == freeBytes(cursor, size)
          IN  /\ Last.n = Len(Last.arg)
              /\ cursor'.tail = (cursor.tail + need) % size
              /\ need <= free
                 => /\ cursor'.head = cursor.head
                    /\ Drained' = Append(Drained, Last.arg)
              /\ need > free
                 => \E k \in 1..Len(Drained) :
                       /\ cursor'.head = Advanced(cursor, size, k).head
                       /\ need <= freeBytes(Advanced(cursor, size, k), size)
                       /\ need > freeBytes(Advanced(cursor, size, k - 1), size)
                       /\ Drained' = Append(Drop(Drained, k), Last.arg)]_vars

\* C24: a Read that succeeds on a ring that is not empty returns the length
\* word L at head as its count and the L bytes behind that word, leaves
\* head at (head + P + L) mod N, leaves tail and the data region alone, and
\* brings the bytes in use down by P + L, one frame.
C24_ReadEffect ==
    [][(Returns /\ Last.op = "Read" /\ Last.err = "nil" /\ len(cursor, size) # 0)
       => LET L == LoadWord(cursor.head) IN
          /\ Last.n = L
          /\ Last.data = [i \in 1..L |->
                             file[(cursor.head + uintptrSize + i - 1) % size]]
          /\ cursor'.head = (cursor.head + uintptrSize + L) % size
          /\ cursor'.tail = cursor.tail
          /\ file' = file
          /\ len(cursor', size) = len(cursor, size) - (uintptrSize + L)
          /\ Drained' = Drop(Drained, 1)]_vars

\* C24 happens: a Read has returned a record whose frame ran to the end of
\* the file or over it, and has left another record in the ring.
C24_Witness ==
    /\ Len(hist) >= 1
    /\ LET e == hist[Len(hist)] IN
       /\ e.op = "Read" /\ e.err = "nil" /\ e.n > 0
       /\ e.at + uintptrSize + e.n >= size
       /\ cursor.head = (e.at + uintptrSize + e.n) % size
    /\ len(cursor, size) # 0

\* The call is a Write that succeeded and whose frame runs over the end of
\* the file: its payload does, or its length word already.
Wrapping(e) ==
    /\ e.op = "Write" /\ e.err = "nil"
    /\ e.at + uintptrSize + Len(e.arg) > size

\* Since the call i only Reads with room for any record have returned.
OnlyReadsSince(i) ==
    \A j \in (i + 1)..Len(hist) :
        hist[j].op = "Read" /\ hist[j].cap = size \div 4

\* C25: a record whose frame runs over the end of the file is read back as
\* it was written. After the Write, tail is (offset + P + L) mod N; the
\* Reads that follow return records without error, and the ring is not
\* found empty before one of them, at the offset of the Write, has returned
\* the payload with its length; after that one head is (offset + P + L)
\* mod N.
C25_WrapRoundTrip ==
    \A i \in 1..Len(hist) :
        (Wrapping(hist[i]) /\ OnlyReadsSince(i))
        => LET w    == hist[i]
               next == (w.at + uintptrSize + Len(w.arg)) % size
               back == {j \in (i + 1)..Len(hist) : hist[j].at = w.at}
           IN  /\ cursor.tail = next
               /\ \A j \in (i + 1)..Len(hist) : hist[j].err = "nil"
               /\ \A j \in back :
                     /\ hist[j].n = Len(w.arg)
                     /\ hist[j].data = w.arg
                     /\ j = Len(hist) => cursor.head = next
               /\ (\E t \in DOMAIN pc : Waits(t)) => back # {}

\* ---------------------------------------------------------- the mutex

\* C26: a Read that has found the ring empty does not hold the mutex while
\* it waits. With readers waiting, whoever holds the mutex is not one of
\* them and can go on to release it, and when nobody holds it a goroutine
\* that may call Write on a writable ring can take it: no Write is kept
\* out by the readers that wait.
C26_WaitingReaderFreesMutex ==
    \A r \in DOMAIN pc :
        Waits(r)
        => /\ mutex # r
           /\ \A t \in DOMAIN pc :
                 /\ mutex = t
                    => /\ ~InWait(t)
                       /\ ENABLED (WriteBody(t) \/ ReadBody(t)
                                      \/ ReadUnlock(t) \/ ReadResume(t))
                 /\ (mutex = 0 /\ MayCall(t) /\ ~readOnly)
                    => ENABLED WriteLock(t, Chunk(Len(hist) + 1, 1))

\* C26 happens: one goroutine is parked on the wakeup channel and the other
\* is in Write with the mutex.
C26_Witness ==
    \E r, t \in DOMAIN pc :
        /\ pc[r] = "recv"
        /\ pc[t] = "Write"
        /\ mutex = t

\* The frames in the ring from the offset o on, rem bytes being in use from
\* there.
RECURSIVE Frames(_, _)
Frames(o, rem) ==
    IF rem <= 0 THEN 0
    ELSE 1 + Frames((o + uintptrSize + LoadWord(o)) % size,
                    rem - uintptrSize - LoadWord(o))

\* Every turn of the loop of Write leaves fewer bytes in use.
RECURSIVE Decreasing(_, _, _)
Decreasing(c, n, need) ==
    need > freeBytes(c, n)
    => LET a == advanceHead(c, n) IN
       /\ a.err = "nil"
       /\ len(a.cur, n) < len(c, n)
       /\ Decreasing(a.cur, n, need)

\* The turns the loop of Write takes.
RECURSIVE Iterations(_, _, _)
Iterations(c, n, need) ==
    IF need > freeBytes(c, n) /\ advanceHead(c, n).err = "nil"
    THEN 1 + Iterations(advanceHead(c, n).cur, n, need)
    ELSE 0

\* C27: a Write that holds the mutex comes to its end. Every turn of its
\* loop leaves fewer bytes in use, and the loop takes no more turns than
\* there are frames in the ring; the rest of the body, the send on the
\* wakeup channel included, can run whether a reader waits or not; and the
\* step that ends the body returns from Write with the mutex released.
C27_WriteTerminates ==
    /\ [](\A t \in DOMAIN pc :
             pc[t] = "Write"
             => LET need == uintptrSize + Len(arg[t]) IN
                /\ mutex = t
                /\ Decreasing(cursor, size, need)
                /\ Iterations(cursor, size, need)
                       <= Frames(cursor.head, len(cursor, size))
                /\ ENABLED WriteBody(t))
    /\ [][\A t \in DOMAIN pc :
             (pc[t] = "Write" /\ pc'[t] # "Write")
             => /\ pc'[t] = "idle"
                /\ mutex' = 0
                /\ Returns
                /\ Last.op = "Write" /\ Last.t = t]_vars

\* C27 happens: a Write holds the mutex, has to drop a frame to make room,
\* and a reader is inside its wait.
C27_Witness ==
    \E t, r \in DOMAIN pc :
        /\ pc[t] = "Write"
        /\ Iterations(cursor, size, uintptrSize + Len(arg[t])) >= 1
        /\ InWait(r)

\* C28: on a ring opened without ReserveHeader, ReadOnlyCursor changes
\* nothing: a Write of N/4 bytes or fewer succeeds and returns the length
\* of its payload, as it does with ReadOnlyCursor false.
C28_ReadOnlyNeedsHeader ==
    (ring = "open" /\ ~options.ReserveHeader)
    => \A i \in 1..Len(hist) :
          (hist[i].op = "Write" /\ Len(hist[i].arg) <= size \div 4)
          => hist[i].err = "nil" /\ hist[i].n = Len(hist[i].arg)

====
